---- MODULE Spec2Model ----
(***************************************************************************)
(* Webhooks extension: the webhook registrar (create/delete of Git         *)
(* repository webhooks mapped onto the singleton EventListener), the       *)
(* trigger construction and reconstruction helpers and webhook validation. *)
(*                                                                         *)
(* A Go string is a sequence of tokens.  Strings the code searches for a   *)
(* hyphen (webhook, pipeline, trigger, binding and template names) are     *)
(* split into one-character tokens, "-" being the hyphen; a URL is split   *)
(* at "://" and "/"; other strings are a single token.  The empty string   *)
(* is the empty sequence.                                                  *)
(***************************************************************************)
EXTENDS Integers, Sequences, FiniteSets, TLC

VARIABLES
    lock,        \* modifyingConfigMapLock: 0 when free, else the holder
    pc,          \* pc[r]: position of request r in its handler
    kind,        \* kind[r]: "create" | "delete" | "none"
    hook,        \* hook[r]: payload of a create request (a Webhook)
    dname,       \* dname[r]: path parameter {name} of a delete request
    drepo,       \* drepo[r]: query parameter repository of a delete request
    lel,         \* lel[r]: the handler's local copy of the EventListener triggers
    created,     \* created[r]: this request initialised the EventListener
    resp,        \* resp[r]: HTTP status written by the handler (0: none)
    elExists,    \* cluster: the singleton EventListener resource exists
    elTriggers,  \* cluster: its Spec.Triggers
    elStatus,    \* cluster: Status.Configuration.GeneratedResourceName # ""
    ingress,     \* cluster: the platform network resource exists
    subs,        \* remote Git provider: repositories with a subscription
    registered,  \* history: webhooks written to the EventListener and not removed
    last,        \* history: what the latest handler step did
    vw,          \* pure functions: the webhook under validation
    verr,        \* pure functions: the validation result
    hooks,       \* pure functions: webhooks added so far
    elA,         \* pure functions: triggers built by addWebhookTriggers
    elE,         \* pure functions: triggers built by updateEventListener
    creq,        \* request checks: the create request under check
    uerr,        \* request checks: the result of sanitizeGitURL on its URL
    cstatus,     \* request checks: the status written by the checks (-1: unset)
    secrets,     \* cluster: the secrets of the namespace
    cresp,       \* credentials: the latest request, its response, the secrets before
    made,        \* history: credentials created by the service and not deleted
    hresp,       \* health: the latest liveness or readiness response
    runs,        \* cluster: the pipeline runs, as (repository, pipeline) pairs
    src,         \* credentials: the state of the package's random source
    conc,        \* credentials: conc[c], the concurrent create request c
    call,        \* responses: the call of a response helper under study
    rw,          \* responses: the http.ResponseWriter it writes to
    hubReq,      \* subscriptions: the arguments of doGitHubHubbubRequest
    hubRes,      \* subscriptions: its result and the requests it sent
    topics,      \* subscriptions: the topics the hub holds for the callback
    taskRun,     \* task runs: the TaskRun in the cluster
    chk          \* task runs: the position and result of checkTaskRunSucceeds

vars == <<lock, pc, kind, hook, dname, drepo, lel, created, resp,
          elExists, elTriggers, elStatus, ingress, subs, registered, last,
          vw, verr, hooks, elA, elE, creq, uerr, cstatus,
          secrets, cresp, made, hresp, runs, src, conc, call, rw,
          hubReq, hubRes, topics, taskRun, chk>>

raceVars == <<src, conc>>

respVars == <<call, rw>>

hubVars == <<hubReq, hubRes, topics>>

taskVars == <<taskRun, chk>>

\* the state of the operations that run apart from the webhook requests
soloVars == <<raceVars, respVars, hubVars, taskVars>>

\* the state of the webhook requests and of the cluster they act on
webVars == <<lock, pc, kind, hook, dname, drepo, lel, created, resp,
             elExists, elTriggers, elStatus, ingress, subs, registered, last, runs>>

reqVars == <<webVars, soloVars>>

fnVars == <<vw, verr, hooks, elA, elE>>

chkVars == <<creq, uerr, cstatus>>

credVars == <<secrets, cresp, made, hresp>>

\* what the steps of the webhook requests leave alone
offVars == <<fnVars, chkVars, credVars, soloVars>>

-----------------------------------------------------------------------------
(* Bounds *)

\* number of concurrent webhook requests
NReq == 2
\* webhooks added in a row when building trigger lists
MaxHooks == 2

Reqs == 1..NReq

-----------------------------------------------------------------------------
(* Strings *)

Hyphen == "-"
Slash == "/"
SchemeSep == "://"

\* strings.Contains(s, "-")
ContainsHyphen(s) == \E i \in 1..Len(s) : s[i] = Hyphen

\* index of the first token c of s, Len(s)+1 when there is none
IndexOf(s, c) ==
    IF \E i \in 1..Len(s) : s[i] = c
    THEN CHOOSE i \in 1..Len(s) : s[i] = c /\ \A j \in 1..(i-1) : s[j] # c
    ELSE Len(s) + 1

\* index of the last token c of s, 0 when there is none
LastIndexOf(s, c) ==
    IF \E i \in 1..Len(s) : s[i] = c
    THEN CHOOSE i \in 1..Len(s) : s[i] = c /\ \A j \in (i+1)..Len(s) : s[j] # c
    ELSE 0

\* the part of s before its first hyphen
BeforeHyphen(s) == SubSeq(s, 1, IndexOf(s, Hyphen) - 1)

\* strings.HasPrefix(s, p)
HasPrefix(s, p) == Len(p) <= Len(s) /\ SubSeq(s, 1, Len(p)) = p

\* strings.TrimPrefix(s, p)
TrimPrefix(s, p) == IF HasPrefix(s, p) THEN SubSeq(s, Len(p) + 1, Len(s)) ELSE s

\* strings.HasSuffix(s, p)
HasSuffix(s, p) == Len(p) <= Len(s) /\ SubSeq(s, Len(s) - Len(p) + 1, Len(s)) = p

\* strings.TrimSuffix(s, p)
TrimSuffix(s, p) == IF HasSuffix(s, p) THEN SubSeq(s, 1, Len(s) - Len(p)) ELSE s

\* strings.Split(s, "/"): the parts of s between its slashes
RECURSIVE Split(_)
Split(s) ==
    IF \A i \in 1..Len(s) : s[i] # Slash
    THEN <<s>>
    ELSE <<SubSeq(s, 1, IndexOf(s, Slash) - 1)>>
             \o Split(SubSeq(s, IndexOf(s, Slash) + 1, Len(s)))

\* fmt.Sprintf("%s-%s", a, b)
Join(a, b) == a \o <<Hyphen>> \o b

\* a string of n letters
Letters(n) == [i \in 1..n |-> "a"]

\* the set of elements of a sequence
Range(s) == { s[i] : i \in 1..Len(s) }

-----------------------------------------------------------------------------
(* Webhook and its validation: package model *)

MaxNameLen == 57

ErrNone == "nil"

\* ValidateWebhookName with the hyphen check left out
ValidateWebhookNameNoHyphenCheck(name) ==
    IF Len(name) = 0 THEN "Name must cannot be empty"
    ELSE IF Len(name) > MaxNameLen THEN "Name must be less than 58 characters"
    ELSE ErrNone

ValidateWebhookName(name) ==
    IF Len(name) = 0 THEN "Name must cannot be empty"
    ELSE IF Len(name) > MaxNameLen THEN "Name must be less than 58 characters"
    ELSE IF ContainsHyphen(name) THEN "Name may not contains hyphens"
    ELSE ErrNone

\* Validate with the Pipeline check left out
ValidateNoPipelineCheck(w) ==
    IF ValidateWebhookName(w.Name) # ErrNone THEN ValidateWebhookName(w.Name)
    ELSE IF w.Namespace = <<>> THEN "Namespace cannot be empty"
    ELSE IF w.ServiceAccount = <<>> THEN "ServiceAccount cannot be emptyd"
    ELSE IF w.AccessTokenRef = <<>> THEN "AccessTokenRef cannot be empty"
    ELSE IF w.DockerRegistry = <<>> THEN "Docker Registry cannot be empty"
    ELSE IF w.GitRepositoryURL = <<>> THEN "GitRepositoryURL cannot be empty"
    ELSE ErrNone

Validate(w) ==
    IF ValidateWebhookName(w.Name) # ErrNone THEN ValidateWebhookName(w.Name)
    ELSE IF w.Namespace = <<>> THEN "Namespace cannot be empty"
    ELSE IF w.ServiceAccount = <<>> THEN "ServiceAccount cannot be emptyd"
    ELSE IF w.AccessTokenRef = <<>> THEN "AccessTokenRef cannot be empty"
    ELSE IF w.Pipeline = <<>> THEN "Pipeline cannot be empty"
    ELSE IF w.DockerRegistry = <<>> THEN "Docker Registry cannot be empty"
    ELSE IF w.GitRepositoryURL = <<>> THEN "GitRepositoryURL cannot be empty"
    ELSE ErrNone

Webhook(n, ns, sa, atr, pl, dr, url) ==
    [Name |-> n, Namespace |-> ns, ServiceAccount |-> sa, AccessTokenRef |-> atr,
     Pipeline |-> pl, DockerRegistry |-> dr, GitRepositoryURL |-> url]

-----------------------------------------------------------------------------
(* Inputs *)

NameA == <<"a">>
NameAB == <<"a", "b">>
NameB == <<"b">>
NameHyphen == <<"a", "-", "b">>
NameEmpty == <<>>
NameMax == Letters(MaxNameLen)
NameTooLong == Letters(MaxNameLen + 1)

PipeP == <<"p">>
PipePQ == <<"p", "-", "q">>

NsN == <<"n", "s">>
SA == <<"sa">>
ATR == <<"atr">>
DR == <<"dr">>

PipeY == <<"y">>
PipeZ == <<"z">>

\* a URL is the sequence of its scheme, "://", the labels of its host (each
\* but the first with its leading dot), and its path segments and slashes
URL1 == <<"https", SchemeSep, "vcs", ".com", Slash, "org", Slash, "r1">>
URL2 == <<"http", SchemeSep, "vcs", ".com", Slash, "org", Slash, "r2">>
URLBad == <<"ftp", SchemeSep, "vcs", ".com", Slash, "org", Slash, "r1">>

\* raw URLs: with and without scheme, hosts with and without .com, with no
\* label before it and empty, owner and repository present or empty, and a
\* .git suffix or a trailing slash
RawURLs ==
    { scheme \o host \o <<Slash>> \o org \o <<Slash>> \o repo \o tail :
        scheme \in {<<"https", SchemeSep>>, <<"http", SchemeSep>>,
                    <<"abcd", SchemeSep>>, <<>>},
        host \in {<<"gitpalace", ".com">>, <<"gitpalace", ".enterprise", ".com">>,
                  <<"gitpalace", ".io">>, <<".com">>, <<>>},
        org \in {<<"org">>, <<>>},
        repo \in {<<"repo">>, <<>>},
        tail \in {<<>>, <<".git">>, <<Slash>>} }

\* every combination of a name and of each other field present or empty
ValidateInputs ==
    { Webhook(n, ns, sa, atr, pl, dr, url) :
        n \in {NameA, NameAB, NameHyphen, NameEmpty, NameMax, NameTooLong},
        ns \in {NsN, <<>>}, sa \in {SA, <<>>}, atr \in {ATR, <<>>},
        pl \in {PipeP, <<>>}, dr \in {DR, <<>>}, url \in {URL1, <<>>} }

\* valid webhooks to build trigger lists from
AddInputs ==
    { Webhook(n, NsN, SA, ATR, pl, DR, url) :
        n \in {NameA, NameAB, NameB}, pl \in {PipeP, PipePQ}, url \in {URL1, URL2} }

\* payloads of create requests
CreateInputs ==
    { Webhook(n, NsN, SA, ATR, pl, DR, url) :
        n \in {NameA, NameAB, NameHyphen, NameEmpty, NameTooLong},
        pl \in {PipeP, PipePQ, PipeY}, url \in {URL1, URL2, URLBad} }

\* parameters of delete requests
DeleteNames == {NameA, NameAB}
DeleteRepos == {URL1, URL2}

-----------------------------------------------------------------------------
(* Triggers of the EventListener *)

\* a pipelinesv1alpha1.Param with a string value
Param(n, v) == [Name |-> n, Value |-> v]

\* whether a parameter named n is among params
HasParam(params, n) == \E i \in 1..Len(params) : params[i].Name = n

\* the value of the first parameter named n
ParamValue(params, n) ==
    params[CHOOSE i \in 1..Len(params) :
                params[i].Name = n /\ \A j \in 1..(i-1) : params[j].Name # n].Value

WextInterceptorTriggerName == "Wext-Trigger-Name"
WextInterceptorRepoURL == "Wext-Repository-Url"
WextInterceptorEvent == "Wext-Incoming-Event"
WextInterceptorSecretName == "Wext-Secret-Name"

wextTargetNamespace == "webhooks-tekton-target-namespace"
wextServiceAccount == "webhooks-tekton-service-account"
wextDockerRegistry == "webhooks-tekton-docker-registry"
wextGitServer == "webhooks-tekton-git-server"
wextGitOrg == "webhooks-tekton-git-org"
wextGitRepo == "webhooks-tekton-git-repo"
wextReleaseName == "webhooks-tekton-release-name"
wextMonitorSecretName == "gitsecretname"
wextMonitorSecretKey == "gitsecretkeyname"
wextMonitorDashboardURL == "dashboardurl"

AccessToken == <<"accessToken">>
EventPush == <<"push">>
EventPullRequest == <<"pull_request">>

\* newTrigger with the trigger name left out of the interceptor headers
newTriggerNoNameHeader(name, bindingName, templateName, repoURL, event, secretName, params) ==
    [Name |-> name, Binding |-> bindingName, Params |-> params,
     Template |-> templateName,
     Header |-> << Param(WextInterceptorRepoURL, repoURL),
                   Param(WextInterceptorEvent, event),
                   Param(WextInterceptorSecretName, secretName) >>]

\* the constant fields (APIVersion, the validator ObjectRef) are left out
newTrigger(name, bindingName, templateName, repoURL, event, secretName, params) ==
    [Name |-> name, Binding |-> bindingName, Params |-> params,
     Template |-> templateName,
     Header |-> << Param(WextInterceptorTriggerName, name),
                   Param(WextInterceptorRepoURL, repoURL),
                   Param(WextInterceptorEvent, event),
                   Param(WextInterceptorSecretName, secretName) >>]

HTTPS == <<"https", SchemeSep>>
HTTP == <<"http", SchemeSep>>

\* server (with its scheme), owner and repository of an http or https URL;
\* empty strings and an error when it has fewer than two slashes after the
\* scheme.  The inputs are lower case already.
getGitValues(url) ==
    LET isHTTPS == \E i \in 1..(Len(url) - 1) : SubSeq(url, i, i + 1) = HTTPS
        prefix == IF url = <<>> THEN <<>> ELSE IF isHTTPS THEN HTTPS ELSE HTTP
        untrimmed == IF url = <<>> THEN <<>> ELSE TrimPrefix(url, prefix)
        numSlashes == Cardinality({ i \in 1..Len(untrimmed) : untrimmed[i] = Slash })
        repoURL == IF untrimmed # <<>> /\ untrimmed[Len(untrimmed)] = Slash
                   THEN SubSeq(untrimmed, 1, Len(untrimmed) - 1)
                   ELSE untrimmed
        first == IndexOf(repoURL, Slash)
        final == LastIndexOf(repoURL, Slash)
        hasGit == url # <<>> /\ url[Len(url)] = ".git"
    IN IF numSlashes < 2
       THEN [server |-> <<>>, org |-> <<>>, repo |-> <<>>, err |-> TRUE]
       ELSE [server |-> prefix \o SubSeq(repoURL, 1, first - 1),
             org |-> SubSeq(repoURL, first + 1, final - 1),
             repo |-> SubSeq(repoURL, final + 1,
                             IF hasGit THEN Len(repoURL) - 1 ELSE Len(repoURL)),
             err |-> FALSE]

\* the dashboard URL when no dashboard service answers
getDashboardURL == <<"http://localhost:9097/">>

\* package endpoints: parameters of the pipeline triggers and of the monitor
\* trigger
getParams(w) ==
    LET g == getGitValues(w.GitRepositoryURL)
        server == TrimPrefix(TrimPrefix(g.server, HTTPS), HTTP)
        hookParams == << Param(wextReleaseName, w.GitRepositoryURL),
                         Param(wextTargetNamespace, w.Namespace),
                         Param(wextServiceAccount, w.ServiceAccount),
                         Param(wextGitServer, server),
                         Param(wextGitOrg, g.org),
                         Param(wextGitRepo, g.repo) >>
    IN [hook |-> IF w.DockerRegistry # <<>>
                 THEN Append(hookParams, Param(wextDockerRegistry, w.DockerRegistry))
                 ELSE hookParams,
        monitor |-> << Param(wextMonitorSecretName, w.AccessTokenRef),
                       Param(wextMonitorSecretKey, AccessToken),
                       Param(wextMonitorDashboardURL, getDashboardURL) >>]

PushEvent == <<"p","u","s","h","-","e","v","e","n","t">>
PullRequestEvent == <<"p","u","l","l","r","e","q","u","e","s","t","-","e","v","e","n","t">>
MonitorTask == <<"m","o","n","i","t","o","r","-","t","a","s","k">>
PushBinding == <<"p","u","s","h","-","b","i","n","d","i","n","g">>
PullRequestBinding == <<"p","u","l","l","r","e","q","u","e","s","t","-","b","i","n","d","i","n","g">>
Binding == <<"b","i","n","d","i","n","g">>
Template == <<"t","e","m","p","l","a","t","e">>

\* package endpoints: the triggers of the EventListener after adding webhook w
updateEventListener(triggers, w) ==
    LET p == getParams(w)
        newPushTrigger ==
            newTrigger(Join(Join(w.Name, w.Namespace), PushEvent),
                       Join(w.Pipeline, PushBinding),
                       Join(w.Pipeline, Template),
                       w.GitRepositoryURL, EventPush, w.AccessTokenRef, p.hook)
        newPullRequestTrigger ==
            newTrigger(Join(Join(w.Name, w.Namespace), PullRequestEvent),
                       Join(w.Pipeline, PullRequestBinding),
                       Join(w.Pipeline, Template),
                       w.GitRepositoryURL, EventPullRequest, w.AccessTokenRef, p.hook)
        monitorTrigger ==
            newTrigger(MonitorTask,
                       Join(w.Pipeline, Binding),
                       Join(w.Pipeline, Template),
                       w.GitRepositoryURL, EventPullRequest, w.AccessTokenRef, p.monitor)
    IN triggers \o <<newPushTrigger, newPullRequestTrigger, monitorTrigger>>

-----------------------------------------------------------------------------
(* Package endpoints: the checks of a create request *)

GitSuffix == <<".git">>
DotCom == <<".com">>

\* url.ParseRequestURI: an empty string is an error; with a scheme the host
\* runs up to the first slash and the path from it; without a scheme the
\* string must start with a slash and is all path
ParseRequestURI(rawurl) ==
    IF rawurl = <<>>
    THEN [err |-> TRUE, Scheme |-> <<>>, Host |-> <<>>, Path |-> <<>>]
    ELSE IF Len(rawurl) >= 2 /\ rawurl[2] = SchemeSep
    THEN LET rest == SubSeq(rawurl, 3, Len(rawurl))
             slash == IndexOf(rest, Slash)
         IN [err |-> FALSE, Scheme |-> <<rawurl[1]>>,
             Host |-> SubSeq(rest, 1, slash - 1),
             Path |-> SubSeq(rest, slash, Len(rest))]
    ELSE IF rawurl[1] = Slash
    THEN [err |-> FALSE, Scheme |-> <<>>, Host |-> <<>>, Path |-> rawurl]
    ELSE [err |-> TRUE, Scheme |-> <<>>, Host |-> <<>>, Path |-> <<>>]

\* sanitizeGitURL: the parsed URL without its .git suffix, or an error
sanitizeGitURL(rawurl) ==
    LET url == ParseRequestURI(TrimSuffix(rawurl, GitSuffix))
        s == Split(url.Path)
    IN IF url.err THEN [url |-> url, err |-> TRUE]
       ELSE IF ~HasSuffix(url.Host, DotCom) THEN [url |-> url, err |-> TRUE]
       ELSE IF url.Scheme # <<"http">> \/ url.Scheme # <<"https">>
            THEN [url |-> url, err |-> TRUE]
       ELSE IF Len(s) # 3 \/ s[2] = <<>> \/ s[3] = <<>>
            THEN [url |-> url, err |-> TRUE]
       ELSE [url |-> url, err |-> FALSE]

\* checkWebhook: nil, or the error for the first empty field
checkWebhook(w) ==
    IF w.Name = <<>> THEN "Name must cannot be empty"
    ELSE IF w.Namespace = <<>> THEN "Namespace cannot be empty"
    ELSE IF w.ServiceAccount = <<>> THEN "ServiceAccount cannot be emptyd"
    ELSE IF w.AccessTokenRef = <<>> THEN "AccessTokenRef cannot be empty"
    ELSE IF w.DockerRegistry = <<>> THEN "Docker Registry cannot be empty"
    ELSE IF w.GitRepositoryURL = <<>> THEN "GitRepositoryURL cannot be empty"
    ELSE ErrNone

-----------------------------------------------------------------------------
(* Package restapi: triggers per webhook and webhooks per trigger *)

pushTriggerBindingPostfix == PushBinding
pullTriggerBindingPostfix == PullRequestBinding
monitorTriggerBindingPostfix == Binding
triggerTemplatePostfix == Template
monitorTaskName == MonitorTask

\* parameters of the push and pull-request triggers
getPipelineTriggerParams(w) ==
    LET g == getGitValues(w.GitRepositoryURL)
    IN << Param(wextTargetNamespace, w.Namespace),
          Param(wextServiceAccount, w.ServiceAccount),
          Param(wextDockerRegistry, w.DockerRegistry),
          Param(wextGitServer, TrimPrefix(TrimPrefix(g.server, HTTPS), HTTP)),
          Param(wextGitOrg, g.org),
          Param(wextGitRepo, g.repo) >>

\* parameters of the monitor trigger
getMonitorTriggerParams(w) ==
    << Param(wextMonitorSecretName, w.AccessTokenRef),
       Param(wextMonitorSecretKey, AccessToken),
       Param(wextMonitorDashboardURL, getDashboardURL) >>

\* the three triggers of webhook w: push, pull request, monitor
webhookTriggers(w) ==
    << newTrigger(Join(w.Name, pushTriggerBindingPostfix),
                  Join(w.Pipeline, pushTriggerBindingPostfix),
                  Join(w.Pipeline, triggerTemplatePostfix),
                  w.GitRepositoryURL, EventPush, w.AccessTokenRef,
                  getPipelineTriggerParams(w)),
       newTrigger(Join(w.Name, pullTriggerBindingPostfix),
                  Join(w.Pipeline, pullTriggerBindingPostfix),
                  Join(w.Pipeline, triggerTemplatePostfix),
                  w.GitRepositoryURL, EventPullRequest, w.AccessTokenRef,
                  getPipelineTriggerParams(w)),
       newTrigger(Join(w.Name, monitorTaskName),
                  Join(w.Pipeline, monitorTriggerBindingPostfix),
                  Join(w.Pipeline, triggerTemplatePostfix),
                  w.GitRepositoryURL, EventPullRequest, w.AccessTokenRef,
                  getMonitorTriggerParams(w)) >>

\* the triggers of the EventListener after adding webhook w
addWebhookTriggers(triggers, w) == triggers \o webhookTriggers(w)

\* the webhook name is the trigger name up to its first hyphen
getWebhookNameFromTrigger(t) == BeforeHyphen(t.Name)

\* the pipeline name is the template name up to its first hyphen
getPipelineNameFromTrigger(t) == BeforeHyphen(t.Template)

\* the webhook a trigger was built for; an error when a parameter or a
\* header it is read from is missing
triggerToWebhook(t) ==
    IF /\ HasParam(t.Params, wextTargetNamespace)
       /\ HasParam(t.Params, wextServiceAccount)
       /\ HasParam(t.Params, wextDockerRegistry)
       /\ HasParam(t.Header, WextInterceptorSecretName)
       /\ HasParam(t.Header, WextInterceptorRepoURL)
    THEN [err |-> FALSE,
          webhook |-> Webhook(getWebhookNameFromTrigger(t),
                              ParamValue(t.Params, wextTargetNamespace),
                              ParamValue(t.Params, wextServiceAccount),
                              ParamValue(t.Header, WextInterceptorSecretName),
                              getPipelineNameFromTrigger(t),
                              ParamValue(t.Params, wextDockerRegistry),
                              ParamValue(t.Header, WextInterceptorRepoURL))]
    ELSE [err |-> TRUE, webhook |-> Webhook(<<>>, <<>>, <<>>, <<>>, <<>>, <<>>, <<>>)]

\* the webhooks of a trigger list: one per webhook name, in trigger order
RECURSIVE webhooksFrom(_, _)
webhooksFrom(triggers, acc) ==
    IF triggers = <<>> THEN acc
    ELSE LET r == triggerToWebhook(Head(triggers))
         IN IF r.err \/ \E i \in 1..Len(acc) : acc[i].Name = r.webhook.Name
            THEN webhooksFrom(Tail(triggers), acc)
            ELSE webhooksFrom(Tail(triggers), Append(acc, r.webhook))

getWebhooksFromEventListener(triggers) == webhooksFrom(triggers, <<>>)

\* filterWebhooksByRepo that keeps the webhooks of every repository
filterWebhooksAnyRepo(webhooks, repoURL) == webhooks

\* the webhooks on the repository
filterWebhooksByRepo(webhooks, repoURL) ==
    SelectSeq(webhooks, LAMBDA w : w.GitRepositoryURL = repoURL)

\* whether a webhook of that name is among them
findWebhookByName(webhooks, name) ==
    \E i \in 1..Len(webhooks) : webhooks[i].Name = name

\* onlyWebhookOnRepo that also holds when other webhooks are on the repository
onlyWebhookOnRepoOrMore(webhooks) == Len(webhooks) >= 1

\* whether the webhook to delete, found among the webhooks on its
\* repository, is the only one there
onlyWebhookOnRepo(webhooks) == Len(webhooks) = 1

\* removeWebhookTriggers matching the trigger name by prefix alone
removeWebhookTriggersByPrefix(triggers, name) ==
    SelectSeq(triggers, LAMBDA t : ~HasPrefix(t.Name, name))

\* the triggers without those of the webhook named name
removeWebhookTriggers(triggers, name) ==
    SelectSeq(triggers, LAMBDA t : getWebhookNameFromTrigger(t) # name)

\* the URL check of the create handler (restapi sanitizeGitURL): the URL
\* without its .git suffix parses, its scheme is http or https, its host
\* ends in .com after at least one label, and its path is an owner and a
\* repository with no trailing slash
validRepoURL(url) ==
    LET u == ParseRequestURI(TrimSuffix(url, GitSuffix))
        s == Split(u.Path)
    IN /\ ~u.err
       /\ HasSuffix(u.Host, DotCom) /\ Len(u.Host) >= 2
       /\ u.Scheme \in {<<"http">>, <<"https">>}
       /\ Len(s) = 3 /\ s[2] # <<>> /\ s[3] # <<>>

\* the trigger templates and trigger bindings installed in the namespace:
\* pipelines p and p-q have all three resources, z lacks its pull-request
\* binding, y has none
TriggerTemplates ==
    { Join(pl, triggerTemplatePostfix) : pl \in {PipeP, PipePQ, PipeZ} }
TriggerBindings ==
    { Join(pl, pushTriggerBindingPostfix) : pl \in {PipeP, PipePQ, PipeZ} }
        \cup { Join(pl, pullTriggerBindingPostfix) : pl \in {PipeP, PipePQ} }

\* whether the template and both bindings of a pipeline exist
pipelineResourcesExist(pipeline) ==
    /\ Join(pipeline, triggerTemplatePostfix) \in TriggerTemplates
    /\ Join(pipeline, pushTriggerBindingPostfix) \in TriggerBindings
    /\ Join(pipeline, pullTriggerBindingPostfix) \in TriggerBindings

-----------------------------------------------------------------------------
(* The webhook requests *)

NoHook == Webhook(<<>>, <<>>, <<>>, <<>>, <<>>, <<>>, <<>>)

\* what a handler step did: the step, the webhook name and repository it
\* was about, and the triggers and registered webhooks before it
Did(op, name, repo) ==
    [op |-> op, name |-> name, repo |-> repo,
     before |-> elTriggers, hooks |-> registered]

\* the registered webhooks without the one named name
Unregister(ws, name) == SelectSeq(ws, LAMBDA w : w.Name # name)

\* no request in progress, no EventListener, no subscription
InitReq ==
    /\ lock = 0
    /\ pc = [r \in Reqs |-> "idle"]
    /\ kind = [r \in Reqs |-> "none"]
    /\ hook = [r \in Reqs |-> NoHook]
    /\ dname = [r \in Reqs |-> <<>>]
    /\ drepo = [r \in Reqs |-> <<>>]
    /\ lel = [r \in Reqs |-> <<>>]
    /\ created = [r \in Reqs |-> FALSE]
    /\ resp = [r \in Reqs |-> 0]
    /\ elExists = FALSE
    /\ elTriggers = <<>>
    /\ elStatus = FALSE
    /\ ingress = FALSE
    /\ subs = {}
    /\ registered = <<>>
    /\ last = [op |-> "none", name |-> <<>>, repo |-> <<>>,
               before |-> <<>>, hooks |-> <<>>]
    /\ runs = {}

\* no webhook drawn
IdleFn ==
    /\ vw = NoHook
    /\ verr = "unset"
    /\ hooks = <<>>
    /\ elA = <<>>
    /\ elE = <<>>

NoRequest == [readable |-> TRUE, webhook |-> NoHook]

\* no request drawn
IdleChk ==
    /\ creq = NoRequest
    /\ uerr = "unset"
    /\ cstatus = -1

NoResponse ==
    [op |-> "none", status |-> 0, name |-> <<>>, token |-> <<>>, readable |-> TRUE,
     location |-> <<>>, body |-> <<>>, before |-> {}]

NoHealth == [path |-> <<>>, status |-> 0, polling |-> FALSE]

\* no secret, and no credential or health request yet
IdleCred ==
    /\ secrets = {}
    /\ cresp = NoResponse
    /\ made = {}
    /\ hresp = NoHealth

\* number of concurrent credential requests
NCred == 2

Creds == 1..NCred

\* a credential request that has not arrived
NoCred ==
    [pc |-> "idle", req |-> [Name |-> <<>>, AccessToken |-> <<>>],
     seen |-> 0, used |-> {}, i |-> 0, b |-> <<>>, status |-> 0]

\* the source as seeded, and no credential request
IdleRace ==
    /\ src = 0
    /\ conc = [c \in Creds |-> NoCred]

\* the header map of a response: the values added under each key, in order
NoHeader == [ContentType |-> <<>>, ContentLocation |-> <<>>]

\* a response writer nothing was written to; kind is what implements it
NewWriter(k) ==
    [kind |-> k, header |-> NoHeader, wroteHeader |-> FALSE, code |-> 0,
     snap |-> NoHeader, body |-> <<>>, wrote |-> FALSE]

NoCall ==
    [fn |-> "none", msg |-> <<>>, statusCode |-> 0, method |-> "", path |-> <<>>,
     identifier |-> <<>>, returned |-> FALSE]

\* no call of a response helper
IdleResp ==
    /\ call = NoCall
    /\ rw = NewWriter("server")

NoHubReq == [mode |-> "none", events |-> <<>>, answers |-> <<>>, before |-> {}]

NoHubRes == [returned |-> FALSE, err |-> FALSE, sent |-> <<>>]

\* no subscription request
IdleHub ==
    /\ hubReq = NoHubReq
    /\ hubRes = NoHubRes
    /\ topics = {}

NoTaskRun == [cond |-> "Unknown", cancelled |-> FALSE]

NoCheck ==
    [pc |-> "idle", retries |-> 0, polls |-> 0, ok |-> FALSE, err |-> "unset",
     seen |-> NoTaskRun]

\* no task run under watch
IdleTask ==
    /\ taskRun = NoTaskRun
    /\ chk = NoCheck

IdleSolo ==
    /\ IdleRace
    /\ IdleResp
    /\ IdleHub
    /\ IdleTask

Init ==
    /\ InitReq
    /\ IdleFn
    /\ IdleChk
    /\ IdleCred
    /\ IdleSolo

\* POST /webhooks arrives
CreateWebhook(r) ==
    /\ pc[r] = "idle"
    /\ pc' = [pc EXCEPT ![r] = "lock"]
    /\ kind' = [kind EXCEPT ![r] = "create"]
    /\ last' = Did("arrive", <<>>, <<>>)
    /\ UNCHANGED <<lock, hook, dname, drepo, lel, created, resp, elExists, elTriggers,
                   elStatus, ingress, subs, registered, runs, offVars>>

\* DELETE /webhooks/{name} arrives
DeleteWebhook(r) ==
    /\ pc[r] = "idle"
    /\ pc' = [pc EXCEPT ![r] = "lock"]
    /\ kind' = [kind EXCEPT ![r] = "delete"]
    /\ last' = Did("arrive", <<>>, <<>>)
    /\ UNCHANGED <<lock, hook, dname, drepo, lel, created, resp, elExists, elTriggers,
                   elStatus, ingress, subs, registered, runs, offVars>>

\* Lock that does not wait for the holder
LockNoWait(r) ==
    /\ pc[r] = "lock"
    /\ lock' = r
    /\ pc' = [pc EXCEPT ![r] = "locked"]
    /\ last' = Did("lock", <<>>, <<>>)
    /\ UNCHANGED <<kind, hook, dname, drepo, lel, created, resp, elExists,
                   elTriggers, elStatus, ingress, subs, registered, runs, offVars>>

\* modifyingConfigMapLock.Lock()
Lock(r) ==
    /\ pc[r] = "lock"
    /\ lock = 0
    /\ lock' = r
    /\ pc' = [pc EXCEPT ![r] = "locked"]
    /\ last' = Did("lock", <<>>, <<>>)
    /\ UNCHANGED <<kind, hook, dname, drepo, lel, created, resp, elExists,
                   elTriggers, elStatus, ingress, subs, registered, runs, offVars>>

\* Unlock on the successful return only: a return after an error answer
\* keeps the lock
UnlockOnSuccessOnly(r) ==
    /\ pc[r] = "done"
    /\ lock' = IF lock = r /\ resp[r] \in {201, 204} THEN 0 ELSE lock
    /\ pc' = [pc EXCEPT ![r] = "idle"]
    /\ kind' = [kind EXCEPT ![r] = "none"]
    /\ hook' = [hook EXCEPT ![r] = NoHook]
    /\ dname' = [dname EXCEPT ![r] = <<>>]
    /\ drepo' = [drepo EXCEPT ![r] = <<>>]
    /\ lel' = [lel EXCEPT ![r] = <<>>]
    /\ created' = [created EXCEPT ![r] = FALSE]
    /\ resp' = [resp EXCEPT ![r] = 0]
    /\ last' = Did("unlock", <<>>, <<>>)
    /\ UNCHANGED <<elExists, elTriggers, elStatus, ingress, subs,
                   registered, runs, offVars>>

\* the handler returns: the deferred modifyingConfigMapLock.Unlock()
Unlock(r) ==
    /\ pc[r] = "done"
    /\ lock' = IF lock = r THEN 0 ELSE lock
    /\ pc' = [pc EXCEPT ![r] = "idle"]
    /\ kind' = [kind EXCEPT ![r] = "none"]
    /\ hook' = [hook EXCEPT ![r] = NoHook]
    /\ dname' = [dname EXCEPT ![r] = <<>>]
    /\ drepo' = [drepo EXCEPT ![r] = <<>>]
    /\ lel' = [lel EXCEPT ![r] = <<>>]
    /\ created' = [created EXCEPT ![r] = FALSE]
    /\ resp' = [resp EXCEPT ![r] = 0]
    /\ last' = Did("unlock", <<>>, <<>>)
    /\ UNCHANGED <<elExists, elTriggers, elStatus, ingress, subs,
                   registered, runs, offVars>>

\* the handler writes an error status and returns
Fail(r, status, op, name, repo) ==
    /\ resp' = [resp EXCEPT ![r] = status]
    /\ pc' = [pc EXCEPT ![r] = "done"]
    /\ last' = Did(op, name, repo)

\* create: read the payload, validate it and its repository URL, and look
\* up the trigger template and bindings of its pipeline
createValidate(r) ==
    /\ pc[r] = "locked" /\ kind[r] = "create"
    /\ \E w \in CreateInputs, readable \in BOOLEAN :
         IF \/ ~readable
            \/ Validate(w) # ErrNone
            \/ ~validRepoURL(w.GitRepositoryURL)
            \/ ~pipelineResourcesExist(w.Pipeline)
         THEN /\ Fail(r, 400, "invalid", w.Name, <<>>)
              /\ UNCHANGED hook
         ELSE /\ hook' = [hook EXCEPT ![r] = w]
              /\ pc' = [pc EXCEPT ![r] = "getEL"]
              /\ last' = Did("valid", w.Name, w.GitRepositoryURL)
              /\ UNCHANGED resp
    /\ UNCHANGED <<lock, kind, dname, drepo, lel, created, elExists, elTriggers,
                   elStatus, ingress, subs, registered, runs, offVars>>

\* createGetEventListener that subscribes on every create
createGetEventListenerAlwaysSubscribe(r) ==
    /\ pc[r] = "getEL"
    /\ LET triggers == IF elExists THEN elTriggers ELSE <<>>
           webhooks == getWebhooksFromEventListener(triggers)
           w == hook[r]
       IN /\ lel' = [lel EXCEPT ![r] = triggers]
          /\ created' = [created EXCEPT ![r] = ~elExists]
          /\ IF \/ findWebhookByName(webhooks, w.Name)
                \/ \E i \in 1..Len(webhooks) :
                      /\ webhooks[i].GitRepositoryURL = w.GitRepositoryURL
                      /\ webhooks[i].Pipeline = w.Pipeline
             THEN Fail(r, 400, "duplicate", w.Name, w.GitRepositoryURL)
             ELSE /\ pc' = [pc EXCEPT ![r] = "subscribe"]
                  /\ last' = Did("new", w.Name, w.GitRepositoryURL)
                  /\ UNCHANGED resp
    /\ UNCHANGED <<lock, kind, hook, dname, drepo, elExists, elTriggers,
                   elStatus, ingress, subs, registered, runs, offVars>>

\* create: fetch the EventListener, or start from the base one, and reject
\* a duplicate name and a duplicate (URL, pipeline)
createGetEventListener(r) ==
    /\ pc[r] = "getEL"
    /\ LET triggers == IF elExists THEN elTriggers ELSE <<>>
           webhooks == getWebhooksFromEventListener(triggers)
           w == hook[r]
       IN /\ lel' = [lel EXCEPT ![r] = triggers]
          /\ created' = [created EXCEPT ![r] = ~elExists]
          /\ IF \/ findWebhookByName(webhooks, w.Name)
                \/ \E i \in 1..Len(webhooks) :
                      /\ webhooks[i].GitRepositoryURL = w.GitRepositoryURL
                      /\ webhooks[i].Pipeline = w.Pipeline
             THEN Fail(r, 400, "duplicate", w.Name, w.GitRepositoryURL)
             ELSE /\ pc' = [pc EXCEPT ![r] =
                        IF filterWebhooksByRepo(webhooks, w.GitRepositoryURL) = <<>>
                        THEN "subscribe" ELSE "write"]
                  /\ last' = Did("new", w.Name, w.GitRepositoryURL)
                  /\ UNCHANGED resp
    /\ UNCHANGED <<lock, kind, hook, dname, drepo, elExists, elTriggers,
                   elStatus, ingress, subs, registered, runs, offVars>>

\* create: the first webhook on a repository subscribes with the Git
\* provider; the provider may refuse
createSubscribe(r) ==
    /\ pc[r] = "subscribe"
    /\ \E ok \in BOOLEAN :
         IF ok
         THEN /\ subs' = subs \cup {hook[r].GitRepositoryURL}
              /\ pc' = [pc EXCEPT ![r] = "write"]
              /\ last' = Did("subscribe", hook[r].Name, hook[r].GitRepositoryURL)
              /\ UNCHANGED resp
         ELSE /\ Fail(r, 500, "subscribeFailed", hook[r].Name, hook[r].GitRepositoryURL)
              /\ UNCHANGED subs
    /\ UNCHANGED <<lock, kind, hook, dname, drepo, lel, created, elExists,
                   elTriggers, elStatus, ingress, registered, runs, offVars>>

\* createWrite that waits for the status and creates the network resource
\* on every create, also when the EventListener existed already
createWriteAlwaysPoll(r) ==
    /\ pc[r] = "write"
    /\ lel' = [lel EXCEPT ![r] = addWebhookTriggers(lel[r], hook[r])]
    /\ elExists' = TRUE
    /\ elTriggers' = lel'[r]
    /\ elStatus' = IF created[r] THEN FALSE ELSE elStatus
    /\ last' = Did("write", hook[r].Name, hook[r].GitRepositoryURL)
    /\ pc' = [pc EXCEPT ![r] = "poll"]
    /\ UNCHANGED <<resp, registered>>
    /\ UNCHANGED <<lock, kind, hook, dname, drepo, created, ingress, subs, runs, offVars>>

\* create: add the triggers and create or update the EventListener; an
\* update of an existing EventListener ends the request
createWrite(r) ==
    /\ pc[r] = "write"
    /\ lel' = [lel EXCEPT ![r] = addWebhookTriggers(lel[r], hook[r])]
    /\ elExists' = TRUE
    /\ elTriggers' = lel'[r]
    /\ elStatus' = IF created[r] THEN FALSE ELSE elStatus
    /\ last' = Did("write", hook[r].Name, hook[r].GitRepositoryURL)
    /\ IF created[r]
       THEN /\ pc' = [pc EXCEPT ![r] = "poll"]
            /\ UNCHANGED <<resp, registered>>
       ELSE /\ pc' = [pc EXCEPT ![r] = "done"]
            /\ resp' = [resp EXCEPT ![r] = 201]
            /\ registered' = Append(registered, hook[r])
    /\ UNCHANGED <<lock, kind, hook, dname, drepo, created, ingress, subs, runs, offVars>>

\* the EventListener controller populates the status
PopulateStatus ==
    /\ elExists /\ ~elStatus
    /\ elStatus' = TRUE
    /\ last' = Did("status", <<>>, <<>>)
    /\ UNCHANGED <<lock, pc, kind, hook, dname, drepo, lel, created, resp,
                   elExists, elTriggers, ingress, subs, registered, runs, offVars>>

\* createPoll that goes on without looking at the status
createPollNoWait(r) ==
    /\ pc[r] \in {"poll", "repoll"}
    /\ pc' = [pc EXCEPT ![r] = "network"]
    /\ last' = Did("polled", hook[r].Name, hook[r].GitRepositoryURL)
    /\ UNCHANGED <<lock, kind, hook, dname, drepo, lel, created, resp, elExists,
                   elTriggers, elStatus, ingress, subs, registered, runs, offVars>>

\* createPoll whose loop never sees the status once its first fetch found it
\* empty
createPollStale(r) ==
    /\ pc[r] \in {"poll", "repoll"}
    /\ IF ~elExists
       THEN Fail(r, 500, "pollFailed", hook[r].Name, hook[r].GitRepositoryURL)
       ELSE /\ pc' = [pc EXCEPT ![r] = IF elStatus /\ pc[r] = "poll"
                                       THEN "network" ELSE "repoll"]
            /\ last' = Did(IF elStatus /\ pc[r] = "poll" THEN "polled" ELSE "pollEmpty",
                           hook[r].Name, hook[r].GitRepositoryURL)
            /\ UNCHANGED resp
    /\ UNCHANGED <<lock, kind, hook, dname, drepo, lel, created, elExists,
                   elTriggers, elStatus, ingress, subs, registered, runs, offVars>>

\* create: one fetch of the status poll. A missing EventListener is an
\* error; a populated status ends the poll; an empty status sleeps and
\* fetches again ("repoll" is the position after an empty fetch)
createPoll(r) ==
    /\ pc[r] \in {"poll", "repoll"}
    /\ IF ~elExists
       THEN Fail(r, 500, "pollFailed", hook[r].Name, hook[r].GitRepositoryURL)
       ELSE /\ pc' = [pc EXCEPT ![r] = IF elStatus THEN "network" ELSE "repoll"]
            /\ last' = Did(IF ~elStatus THEN "pollEmpty"
                           ELSE IF pc[r] = "repoll" THEN "polledLate" ELSE "polled",
                           hook[r].Name, hook[r].GitRepositoryURL)
            /\ UNCHANGED resp
    /\ UNCHANGED <<lock, kind, hook, dname, drepo, lel, created, elExists,
                   elTriggers, elStatus, ingress, subs, registered, runs, offVars>>

\* createNetwork that leaves the EventListener in place on failure
createNetworkNoRollback(r) ==
    /\ pc[r] = "network"
    /\ \E ok \in BOOLEAN :
         IF ok
         THEN /\ ingress' = TRUE
              /\ resp' = [resp EXCEPT ![r] = 201]
              /\ pc' = [pc EXCEPT ![r] = "done"]
              /\ registered' = Append(registered, hook[r])
              /\ last' = Did("created", hook[r].Name, hook[r].GitRepositoryURL)
         ELSE Fail(r, 500, "rollback", hook[r].Name, hook[r].GitRepositoryURL)
              /\ UNCHANGED <<ingress, registered>>
    /\ UNCHANGED <<lock, kind, hook, dname, drepo, lel, created, subs,
                   elExists, elTriggers, elStatus, runs, offVars>>

\* create: create the ingress or route; on failure delete the
\* EventListener and answer 500. The deletion may itself fail, which is
\* only reported: the EventListener then stays as written
createNetwork(r) ==
    /\ pc[r] = "network"
    /\ \E ok \in BOOLEAN, cleaned \in BOOLEAN :
         IF ok
         THEN /\ ingress' = TRUE
              /\ resp' = [resp EXCEPT ![r] = 201]
              /\ pc' = [pc EXCEPT ![r] = "done"]
              /\ registered' = Append(registered, hook[r])
              /\ last' = Did("created", hook[r].Name, hook[r].GitRepositoryURL)
              /\ UNCHANGED <<elExists, elTriggers, elStatus>>
         ELSE /\ Fail(r, 500, IF cleaned THEN "rollback" ELSE "rollbackFailed",
                      hook[r].Name, hook[r].GitRepositoryURL)
              /\ elExists' = (elExists /\ ~cleaned)
              /\ elTriggers' = IF cleaned THEN <<>> ELSE elTriggers
              /\ elStatus' = (elStatus /\ ~cleaned)
              /\ registered' = IF cleaned THEN registered
                               ELSE Append(registered, hook[r])
              /\ UNCHANGED ingress
    /\ UNCHANGED <<lock, kind, hook, dname, drepo, lel, created, subs, runs, offVars>>

\* delete: fetch the EventListener and look the webhook up among those on
\* the repository
deleteGetEventListener(r) ==
    /\ pc[r] = "locked" /\ kind[r] = "delete"
    /\ \E n \in DeleteNames, u \in DeleteRepos :
         LET triggers == IF elExists THEN elTriggers ELSE <<>>
             webhooks == filterWebhooksByRepo(getWebhooksFromEventListener(triggers), u)
         IN /\ dname' = [dname EXCEPT ![r] = n]
            /\ drepo' = [drepo EXCEPT ![r] = u]
            /\ lel' = [lel EXCEPT ![r] = triggers]
            /\ IF ~elExists \/ ~findWebhookByName(webhooks, n)
               THEN Fail(r, 404, "notFound", n, u)
               ELSE /\ pc' = [pc EXCEPT ![r] =
                          IF onlyWebhookOnRepo(webhooks) THEN "unsubscribe" ELSE "remove"]
                    /\ last' = Did("found", n, u)
                    /\ UNCHANGED resp
    /\ UNCHANGED <<lock, kind, hook, created, elExists, elTriggers, elStatus,
                   ingress, subs, registered, runs, offVars>>

\* delete: the last webhook on the repository unsubscribes; the provider
\* may refuse
deleteUnsubscribe(r) ==
    /\ pc[r] = "unsubscribe"
    /\ \E ok \in BOOLEAN :
         IF ok
         THEN /\ subs' = subs \ {drepo[r]}
              /\ pc' = [pc EXCEPT ![r] = "remove"]
              /\ last' = Did("unsubscribe", dname[r], drepo[r])
              /\ UNCHANGED resp
         ELSE /\ Fail(r, 500, "unsubscribeFailed", dname[r], drepo[r])
              /\ UNCHANGED subs
    /\ UNCHANGED <<lock, kind, hook, dname, drepo, lel, created, elExists,
                   elTriggers, elStatus, ingress, registered, runs, offVars>>

\* the pipeline of the webhook named name on the repository, as read back
\* from the triggers
pipelineOf(triggers, name, repo) ==
    LET ws == filterWebhooksByRepo(getWebhooksFromEventListener(triggers), repo)
    IN ws[CHOOSE i \in 1..Len(ws) : ws[i].Name = name].Pipeline

\* the pipeline runs without those of the pipeline on the repository
deletePipelineRuns(rs, repo, pipeline) ==
    { x \in rs : ~(x.repo = repo /\ x.pipeline = pipeline) }

\* the runs after a delete: with deletepipelineruns=true those of the
\* deleted webhook's pipeline on its repository are deleted with it
runsAfterDelete(r, cascade) ==
    IF cascade
    THEN deletePipelineRuns(runs, drepo[r], pipelineOf(lel[r], dname[r], drepo[r]))
    ELSE runs

\* deleteWrite that updates the EventListener even when it is left empty
deleteWriteKeepEmpty(r) ==
    /\ pc[r] = "remove"
    /\ \E cascade \in BOOLEAN : runs' = runsAfterDelete(r, cascade)
    /\ lel' = [lel EXCEPT ![r] = removeWebhookTriggers(lel[r], dname[r])]
    /\ elTriggers' = lel'[r]
    /\ resp' = [resp EXCEPT ![r] = 204]
    /\ pc' = [pc EXCEPT ![r] = "done"]
    /\ registered' = Unregister(registered, dname[r])
    /\ last' = Did("deleted", dname[r], drepo[r])
    /\ UNCHANGED <<lock, kind, hook, dname, drepo, created, elExists, elStatus,
                   ingress, subs, offVars>>

\* deleteWrite that leaves the network resource in place when it deletes
\* the EventListener
deleteWriteKeepIngress(r) ==
    /\ pc[r] = "remove"
    /\ \E cascade \in BOOLEAN : runs' = runsAfterDelete(r, cascade)
    /\ lel' = [lel EXCEPT ![r] = removeWebhookTriggers(lel[r], dname[r])]
    /\ IF lel'[r] = <<>>
       THEN /\ elExists' = FALSE
            /\ elTriggers' = <<>>
            /\ elStatus' = FALSE
       ELSE /\ elTriggers' = lel'[r]
            /\ UNCHANGED <<elExists, elStatus>>
    /\ resp' = [resp EXCEPT ![r] = 204]
    /\ pc' = [pc EXCEPT ![r] = "done"]
    /\ registered' = Unregister(registered, dname[r])
    /\ last' = Did("deleted", dname[r], drepo[r])
    /\ UNCHANGED <<lock, kind, hook, dname, drepo, created, ingress, subs, offVars>>

\* delete: remove the webhook's triggers; delete the EventListener and the
\* network resource when none remain, else update the EventListener
deleteWrite(r) ==
    /\ pc[r] = "remove"
    /\ \E cascade \in BOOLEAN : runs' = runsAfterDelete(r, cascade)
    /\ lel' = [lel EXCEPT ![r] = removeWebhookTriggers(lel[r], dname[r])]
    /\ IF lel'[r] = <<>>
       THEN /\ elExists' = FALSE
            /\ elTriggers' = <<>>
            /\ elStatus' = FALSE
            /\ ingress' = FALSE
       ELSE /\ elTriggers' = lel'[r]
            /\ UNCHANGED <<elExists, elStatus, ingress>>
    /\ resp' = [resp EXCEPT ![r] = 204]
    /\ pc' = [pc EXCEPT ![r] = "done"]
    /\ registered' = Unregister(registered, dname[r])
    /\ last' = Did("deleted", dname[r], drepo[r])
    /\ UNCHANGED <<lock, kind, hook, dname, drepo, created, subs, offVars>>

Next ==
    \/ \E r \in Reqs : CreateWebhook(r)
    \/ \E r \in Reqs : DeleteWebhook(r)
    \/ \E r \in Reqs : Lock(r)
    \/ \E r \in Reqs : createValidate(r)
    \/ \E r \in Reqs : createGetEventListener(r)
    \/ \E r \in Reqs : createSubscribe(r)
    \/ \E r \in Reqs : createWrite(r)
    \/ PopulateStatus
    \/ \E r \in Reqs : createPoll(r)
    \/ \E r \in Reqs : createNetwork(r)
    \/ \E r \in Reqs : deleteGetEventListener(r)
    \/ \E r \in Reqs : deleteUnsubscribe(r)
    \/ \E r \in Reqs : deleteWrite(r)
    \/ \E r \in Reqs : Unlock(r)

Spec == Init /\ [][Next]_vars

-----------------------------------------------------------------------------
(* The webhook requests next to pipeline runs *)

\* pipeline runs kept in the cluster
MaxRuns == 1

\* an event of a registered webhook's repository starts a run of its pipeline
StartPipelineRun ==
    /\ Cardinality(runs) < MaxRuns
    /\ \E i \in 1..Len(registered) :
          runs' = runs \cup {[repo |-> registered[i].GitRepositoryURL,
                              pipeline |-> registered[i].Pipeline]}
    /\ runs' # runs
    /\ UNCHANGED <<lock, pc, kind, hook, dname, drepo, lel, created, resp, elExists,
                   elTriggers, elStatus, ingress, subs, registered, last, offVars>>

NextRuns == Next \/ StartPipelineRun

SpecRuns == Init /\ [][NextRuns]_vars

-----------------------------------------------------------------------------
(* The webhook requests when every request succeeds *)

\* no request has answered an error
NoErrorAnswer == \A r \in Reqs : resp[r] \in {0, 201, 204}

\* the steps of the requests in which the payload is valid, the webhook is
\* new or found, and the cluster and the Git provider accept every call;
\* events of registered webhooks start pipeline runs
NextOk ==
    \/ \E r \in Reqs : CreateWebhook(r)
    \/ \E r \in Reqs : DeleteWebhook(r)
    \/ \E r \in Reqs : Lock(r)
    \/ \E r \in Reqs : createValidate(r) /\ NoErrorAnswer'
    \/ \E r \in Reqs : createGetEventListener(r) /\ NoErrorAnswer'
    \/ \E r \in Reqs : createSubscribe(r) /\ NoErrorAnswer'
    \/ \E r \in Reqs : createWrite(r)
    \/ PopulateStatus
    \/ \E r \in Reqs : createPoll(r) /\ NoErrorAnswer'
    \/ \E r \in Reqs : createNetwork(r) /\ NoErrorAnswer'
    \/ \E r \in Reqs : deleteGetEventListener(r) /\ NoErrorAnswer'
    \/ \E r \in Reqs : deleteUnsubscribe(r) /\ NoErrorAnswer'
    \/ \E r \in Reqs : deleteWrite(r)
    \/ \E r \in Reqs : Unlock(r)
    \/ StartPipelineRun

SpecOk == Init /\ [][NextOk]_vars

-----------------------------------------------------------------------------
(* The webhook requests under a fair scheduler and a fair lock *)

\* a goroutine blocked in Lock is not passed over for ever: sync.Mutex
\* hands the lock to a waiter that has waited for more than 1ms
\* (starvation mode)
FairLock == \A r \in Reqs : SF_vars(Lock(r))

\* every request that holds the lock returns: no handler stays at a step
\* for ever
HolderReturns == \A r \in Reqs : []<>(pc[r] \in {"idle", "lock"})

SpecFair == Init /\ [][Next]_vars /\ FairLock /\ HolderReturns

-----------------------------------------------------------------------------
(* The status poll under a fair scheduler *)

\* somebody else deletes the EventListener while a request polls for its
\* status
DeleteEventListener ==
    /\ elExists
    /\ \E r \in Reqs : pc[r] \in {"poll", "repoll"}
    /\ elExists' = FALSE
    /\ elTriggers' = <<>>
    /\ elStatus' = FALSE
    /\ registered' = <<>>
    /\ last' = Did("elDeleted", <<>>, <<>>)
    /\ UNCHANGED <<lock, pc, kind, hook, dname, drepo, lel, created, resp,
                   ingress, subs, runs, offVars>>

NextLive == Next \/ DeleteEventListener

\* the handler's goroutine keeps being scheduled: the poll loop sleeps
\* 100ms and fetches again, and the steps after the poll do not block
Fairness ==
    \A r \in Reqs : /\ WF_vars(createPoll(r))
                    /\ WF_vars(createNetwork(r))

SpecLive == Init /\ [][NextLive]_vars /\ Fairness

-----------------------------------------------------------------------------
(* Validation and trigger construction applied to drawn webhooks *)

InitFn ==
    /\ InitReq
    /\ vw \in ValidateInputs \cup AddInputs
    /\ verr = "unset"
    /\ hooks = <<>>
    /\ elA = <<>>
    /\ elE = <<>>
    /\ IdleChk
    /\ IdleCred
    /\ IdleSolo

\* validate the drawn webhook
ValidateStep ==
    /\ verr = "unset"
    /\ verr' = Validate(vw)
    /\ UNCHANGED <<vw, hooks, elA, elE, reqVars, chkVars, credVars>>

\* add the validated webhook, its name being new, to both trigger lists and
\* draw the next webhook
AddStep ==
    /\ verr = ErrNone
    /\ Len(hooks) < MaxHooks
    /\ \A i \in 1..Len(hooks) : hooks[i].Name # vw.Name
    /\ hooks' = Append(hooks, vw)
    /\ elA' = addWebhookTriggers(elA, vw)
    /\ elE' = updateEventListener(elE, vw)
    /\ vw' \in AddInputs
    /\ verr' = "unset"
    /\ UNCHANGED <<reqVars, chkVars, credVars>>

NextFn == ValidateStep \/ AddStep

SpecFn == InitFn /\ [][NextFn]_vars

-----------------------------------------------------------------------------
(* The checks of package endpoints applied to drawn create requests *)

\* CreateWebhook of package endpoints up to its last check: 400 when the
\* entity cannot be read, when a field is empty, when sanitizeGitURL
\* returns an error, and when the trigger template or a trigger binding
\* of the pipeline is missing; 0 when all checks pass
CreateWebhookChecks(readable, w) ==
    IF ~readable THEN 400
    ELSE IF checkWebhook(w) # ErrNone THEN 400
    ELSE IF sanitizeGitURL(w.GitRepositoryURL).err THEN 400
    ELSE IF ~pipelineResourcesExist(w.Pipeline) THEN 400
    ELSE 0

\* create requests: readable or not, name present or empty, pipelines with
\* and without their resources, every raw URL and none
CheckInputs ==
    [readable : BOOLEAN,
     webhook : { Webhook(n, NsN, SA, ATR, pl, DR, url) :
                   n \in {NameA, NameEmpty}, pl \in {PipeP, PipeY, PipeZ},
                   url \in RawURLs \cup {<<>>} }]

InitChk ==
    /\ InitReq
    /\ IdleFn
    /\ creq \in CheckInputs
    /\ uerr = "unset"
    /\ cstatus = -1
    /\ IdleCred
    /\ IdleSolo

\* apply sanitizeGitURL to the URL of the drawn request
SanitizeStep ==
    /\ uerr = "unset"
    /\ uerr' = IF sanitizeGitURL(creq.webhook.GitRepositoryURL).err
               THEN "error" ELSE ErrNone
    /\ UNCHANGED <<creq, cstatus, reqVars, fnVars, credVars>>

\* run the checks of CreateWebhook on the drawn request
CheckStep ==
    /\ cstatus = -1
    /\ cstatus' = CreateWebhookChecks(creq.readable, creq.webhook)
    /\ UNCHANGED <<creq, uerr, reqVars, fnVars, credVars>>

NextChk == SanitizeStep \/ CheckStep

SpecChk == InitChk /\ [][NextChk]_vars

-----------------------------------------------------------------------------
(* The credential store: package restapi, credentials.go, and package util *)

\* 63 / letterIdxBits: the indices of 6 bits one Int63 value holds
letterIdxMax == 10
letterBytes ==
    <<"1","2","3","4","5","6","7","8","9",
      "a","b","c","d","e","f","g","h","i","j","k","l","m",
      "n","o","p","q","r","s","t","u","v","w","x","y","z",
      "A","B","C","D","E","F","G","H","I","J","K","L","M",
      "N","O","P","Q","R","S","T","U","V","W","X","Y","Z">>

\* the length of a generated token
TokenLen == 20

\* a zero byte
Nul == "NUL"

\* a value of src.Int63() is held as its letterIdxMax indices of 6 bits
\* (0..63), lowest first; its three top bits are never used
Int63A == [j \in 1..letterIdxMax |-> j - 1]
Int63B == <<60, 61, 35, 62, 63, 9, 10, 0, 34, 59>>
Int63Values == {Int63A, Int63B}

\* values a random source yields in a row
MaxDraws == 3
Streams == [1..MaxDraws -> Int63Values]

\* the loop of GetRandomToken that also consumes an index outside
\* letterBytes, leaving its byte zero
RECURSIVE fillTokenNoRangeTest(_, _, _, _)
fillTokenNoRangeTest(i, cache, rest, b) ==
    IF i < 0 THEN b
    ELSE LET c == IF cache = <<>> THEN Head(rest) ELSE cache
             r == IF cache = <<>> THEN Tail(rest) ELSE rest
             idx == Head(c)
         IN IF idx < Len(letterBytes)
            THEN fillTokenNoRangeTest(i - 1, Tail(c), r,
                                      [b EXCEPT ![i + 1] = letterBytes[idx + 1]])
            ELSE fillTokenNoRangeTest(i - 1, Tail(c), r, b)

\* the loop of GetRandomToken: byte i is being filled, cache holds the
\* indices left of the latest Int63 value (remain is its length), rest the
\* values the source yields next
RECURSIVE fillToken(_, _, _, _)
fillToken(i, cache, rest, b) ==
    IF i < 0 THEN b
    ELSE LET c == IF cache = <<>> THEN Head(rest) ELSE cache
             r == IF cache = <<>> THEN Tail(rest) ELSE rest
             idx == Head(c)
         IN IF idx < Len(letterBytes)
            THEN fillToken(i - 1, Tail(c), r, [b EXCEPT ![i + 1] = letterBytes[idx + 1]])
            ELSE fillToken(i, Tail(c), r, b)

\* GetRandomToken(src), src yielding the values of stream
GetRandomToken(stream) ==
    fillToken(TokenLen - 1, Head(stream), Tail(stream), [j \in 1..TokenLen |-> Nul])

\* an entry of a secret's Data under the key accessToken or secretToken: a
\* missing key reads as nil
Absent == [has |-> FALSE, val |-> <<>>]
Bytes(v) == [has |-> TRUE, val |-> v]

Secret(name, type, access, secret) ==
    [Name |-> name, Type |-> type,
     Data |-> [accessToken |-> access, secretToken |-> secret]]

SecretTypeOpaque == "Opaque"

\* model.CredentialRequest
CredentialRequest(name, token) == [Name |-> name, AccessToken |-> token]
\* ValidateCredentialRequest that looks at the name only
ValidateCredentialRequestNameOnly(c) ==
    IF c.Name = <<>> THEN "Name cannot be empty"
    ELSE ErrNone

\* CredentialRequest.Validate
ValidateCredentialRequest(c) ==
    IF c.Name = <<>> THEN "Name cannot be empty"
    ELSE IF c.AccessToken = <<>> THEN "AccessToken cannot be empty"
    ELSE ErrNone

\* credentialRequestToSecret, the random source yielding stream
credentialRequestToSecret(cred, stream) ==
    Secret(cred.Name, SecretTypeOpaque, Bytes(cred.AccessToken),
           Bytes(GetRandomToken(stream)))

\* isCredential that asks for one of the two keys only
isCredentialEitherKey(secret) ==
    secret.Data.accessToken.has \/ secret.Data.secretToken.has

\* isCredential
isCredential(secret) ==
    secret.Data.accessToken.has /\ secret.Data.secretToken.has

\* secretToCredentialResponse
secretToCredentialResponse(secret) ==
    [Name |-> secret.Name,
     AccessToken |-> secret.Data.accessToken.val,
     SecretToken |-> secret.Data.secretToken.val]

\* the secrets in the order the API server lists them
RECURSIVE Items(_)
Items(set) ==
    IF set = {} THEN <<>>
    ELSE LET x == CHOOSE y \in set : TRUE
         IN <<x>> \o Items(set \ {x})

\* the loop of getAllCredentials over the listed secrets
RECURSIVE credentialsOf(_)
credentialsOf(items) ==
    IF items = <<>> THEN <<>>
    ELSE (IF isCredential(Head(items))
          THEN <<secretToCredentialResponse(Head(items))>> ELSE <<>>)
             \o credentialsOf(Tail(items))

\* the secret named name, if any
SecretsNamed(set, name) == { x \in set : x.Name = name }

\* inputs: names and tokens of credential requests, and secrets that exist
\* in the namespace before the service starts
CredName == <<"cred">>
OldName == <<"old">>
DbName == <<"db">>
TlsName == <<"tls">>
Token1 == <<"tok">>
OldSecretToken == <<"Ze7gKS3PSbsRMjIFYHmz">>
CredentialRequests ==
    { CredentialRequest(n, t) : n \in {<<>>, CredName, OldName}, t \in {<<>>, Token1} }
DeleteCredentialNames == {<<>>, CredName, OldName, DbName}
PreSecrets ==
    { Secret(OldName, SecretTypeOpaque, Bytes(Token1), Bytes(OldSecretToken)),
      Secret(DbName, SecretTypeOpaque, Bytes(Token1), Absent),
      Secret(TlsName, "kubernetes.io/tls", Absent, Bytes(OldSecretToken)),
      Secret(<<"empty">>, SecretTypeOpaque, Absent, Absent) }

\* request.URL.Path of POST /webhooks/credentials
CredentialsPath == <<Slash, "webhooks", Slash, "credentials">>

InitCred ==
    /\ InitReq
    /\ IdleFn
    /\ IdleChk
    /\ secrets \in {{}, PreSecrets}
    /\ cresp = NoResponse
    /\ made = {}
    /\ hresp = NoHealth
    /\ IdleSolo

\* the request and what it found, for the response record
Answer(op, status, name, token, readable, location, body) ==
    [op |-> op, status |-> status, name |-> name, token |-> token,
     readable |-> readable, location |-> location, body |-> body,
     before |-> secrets]

\* POST /webhooks/credentials
createCredential ==
    \E readable \in BOOLEAN, credReq \in CredentialRequests, stream \in Streams :
        LET secret == credentialRequestToSecret(credReq, stream)
            refused == \/ ~readable
                       \/ ValidateCredentialRequest(credReq) # ErrNone
                       \/ SecretsNamed(secrets, credReq.Name) # {}
        IN /\ secrets' = IF refused THEN secrets ELSE secrets \cup {secret}
           /\ made' = IF refused THEN made ELSE made \cup {credReq}
           /\ cresp' = Answer("create", IF refused THEN 400 ELSE 201,
                              credReq.Name, credReq.AccessToken, readable,
                              IF refused THEN <<>>
                              ELSE CredentialsPath \o <<Slash>> \o credReq.Name,
                              <<>>)
           /\ UNCHANGED <<hresp, reqVars, fnVars, chkVars>>

\* deleteCredential that answers 204 also when no secret has the name
deleteCredentialAlways204 ==
    \E credName \in DeleteCredentialNames :
        /\ secrets' = secrets \ SecretsNamed(secrets, credName)
        /\ made' = { c \in made : c.Name # credName }
        /\ cresp' = Answer("delete", IF credName = <<>> THEN 400 ELSE 204,
                           credName, <<>>, TRUE, <<>>, <<>>)
        /\ UNCHANGED <<hresp, reqVars, fnVars, chkVars>>

\* DELETE /webhooks/credentials/{name}: 400 without a name, 404 when the
\* API server finds no secret of the name, else the secret is deleted
deleteCredential ==
    \E credName \in DeleteCredentialNames :
        /\ IF credName = <<>>
           THEN /\ cresp' = Answer("delete", 400, credName, <<>>, TRUE, <<>>, <<>>)
                /\ UNCHANGED <<secrets, made>>
           ELSE IF SecretsNamed(secrets, credName) = {}
           THEN /\ cresp' = Answer("delete", 404, credName, <<>>, TRUE, <<>>, <<>>)
                /\ UNCHANGED <<secrets, made>>
           ELSE /\ secrets' = secrets \ SecretsNamed(secrets, credName)
                /\ made' = { c \in made : c.Name # credName }
                /\ cresp' = Answer("delete", 204, credName, <<>>, TRUE, <<>>, <<>>)
        /\ UNCHANGED <<hresp, reqVars, fnVars, chkVars>>

\* GET /webhooks/credentials
getAllCredentials ==
    /\ cresp' = Answer("list", 200, <<>>, <<>>, TRUE, <<>>, credentialsOf(Items(secrets)))
    /\ UNCHANGED <<secrets, made, hresp, reqVars, fnVars, chkVars>>

NextCred == createCredential \/ deleteCredential \/ getAllCredentials

SpecCred == InitCred /\ [][NextCred]_vars

-----------------------------------------------------------------------------
(* The health endpoints next to the webhook requests *)

\* GET /liveness and GET /readiness are both routed to CheckHealth
LivenessPath == <<Slash, "liveness">>
ReadinessPath == <<Slash, "readiness">>
HealthPaths == {LivenessPath, ReadinessPath}

\* whether a webhook request holds the lock and is in its status poll
LockHolderPolls == \E r \in Reqs : lock = r /\ pc[r] \in {"poll", "repoll"}

\* CheckHealth that takes the webhook lock first
CheckHealthLocked(path) ==
    /\ lock = 0
    /\ hresp' = [path |-> path, status |-> 204, polling |-> LockHolderPolls]
    /\ UNCHANGED <<reqVars, fnVars, chkVars, secrets, cresp, made>>

\* CheckHealth: answers 204 No Content, reading and locking nothing
CheckHealth(path) ==
    /\ hresp' = [path |-> path, status |-> 204, polling |-> LockHolderPolls]
    /\ UNCHANGED <<reqVars, fnVars, chkVars, secrets, cresp, made>>

NextHealth == Next \/ \E path \in HealthPaths : CheckHealth(path)

SpecHealth == Init /\ [][NextHealth]_vars

-----------------------------------------------------------------------------
(* Concurrent credential requests and the random source of the package *)

\* src is one rand.Source for all requests, and Int63 is not atomic: it
\* reads the state of the source, computes, and writes the state back. The
\* state is held as the number of values yielded so far.

\* the n-th value the source yields, as its indices of 6 bits
Int63At(n) == [j \in 1..letterIdxMax |-> (17 * n + j) % 64]

\* the loop of GetRandomToken from one Int63 value to the next: byte i is
\* being filled, cache holds the indices left
RECURSIVE fillFromCache(_, _, _)
fillFromCache(i, cache, b) ==
    IF i < 0 \/ cache = <<>> THEN [i |-> i, b |-> b]
    ELSE IF Head(cache) < Len(letterBytes)
         THEN fillFromCache(i - 1, Tail(cache),
                            [b EXCEPT ![i + 1] = letterBytes[Head(cache) + 1]])
         ELSE fillFromCache(i, Tail(cache), b)

\* the requests that arrive together
RaceRequests ==
    { CredentialRequest(CredName, Token1), CredentialRequest(DbName, Token1),
      CredentialRequest(CredName, <<>>) }

InitRace ==
    /\ InitReq
    /\ IdleFn
    /\ IdleChk
    /\ secrets = PreSecrets
    /\ cresp = NoResponse
    /\ made = {}
    /\ hresp = NoHealth
    /\ IdleSolo

\* createCredential in goroutine c, up to the call of GetRandomToken: the
\* entity is read and validated
createCredentialBegin(c) ==
    /\ conc[c].pc = "idle"
    /\ \E credReq \in RaceRequests :
          conc' = [conc EXCEPT ![c] =
                     IF ValidateCredentialRequest(credReq) # ErrNone
                     THEN [@ EXCEPT !.pc = "done", !.req = credReq, !.status = 400]
                     ELSE [@ EXCEPT !.pc = "load", !.req = credReq,
                                    !.i = TokenLen - 1,
                                    !.b = [j \in 1..TokenLen |-> Nul]]]
    /\ UNCHANGED <<src, webVars, fnVars, chkVars, credVars, respVars, hubVars, taskVars>>

\* src.Int63(), first half: goroutine c reads the state of the source
Int63Load(c) ==
    /\ conc[c].pc = "load"
    /\ conc' = [conc EXCEPT ![c] = [@ EXCEPT !.pc = "store", !.seen = src]]
    /\ UNCHANGED <<src, webVars, fnVars, chkVars, credVars, respVars, hubVars, taskVars>>

\* src.Int63(), second half: goroutine c writes the state it computed from
\* the one it read and gets that state's value; GetRandomToken then uses
\* the value up. When another goroutine wrote the source since the read,
\* this is a data race: the write undoes the other's, or the indices into
\* the source's vector, advanced twice, are out of range and Int63 panics
Int63Store(c) ==
    /\ conc[c].pc = "store"
    /\ \E panics \in BOOLEAN :
          IF panics /\ src # conc[c].seen
          THEN /\ conc' = [conc EXCEPT ![c] = [@ EXCEPT !.pc = "done", !.status = 0]]
               /\ UNCHANGED src
          ELSE LET f == fillFromCache(conc[c].i, Int63At(conc[c].seen), conc[c].b)
               IN /\ src' = conc[c].seen + 1
                  /\ conc' = [conc EXCEPT ![c] =
                                 [@ EXCEPT !.pc = IF f.i < 0 THEN "create" ELSE "load",
                                           !.used = @ \cup {conc[c].seen},
                                           !.i = f.i, !.b = f.b]]
    /\ UNCHANGED <<webVars, fnVars, chkVars, credVars, respVars, hubVars, taskVars>>

\* createCredential in goroutine c, from the secret on: Create at the API
\* server, 400 when it refuses, else 201
secretsCreate(c) ==
    /\ conc[c].pc = "create"
    /\ LET secret == Secret(conc[c].req.Name, SecretTypeOpaque,
                            Bytes(conc[c].req.AccessToken), Bytes(conc[c].b))
           refused == SecretsNamed(secrets, conc[c].req.Name) # {}
       IN /\ secrets' = IF refused THEN secrets ELSE secrets \cup {secret}
          /\ conc' = [conc EXCEPT ![c] =
                         [@ EXCEPT !.pc = "done",
                                   !.status = IF refused THEN 400 ELSE 201]]
    /\ UNCHANGED <<src, cresp, made, hresp, webVars, fnVars, chkVars,
                   respVars, hubVars, taskVars>>

NextRace ==
    \/ \E c \in Creds : createCredentialBegin(c)
    \/ \E c \in Creds : Int63Load(c)
    \/ \E c \in Creds : Int63Store(c)
    \/ \E c \in Creds : secretsCreate(c)
    \/ \E path \in HealthPaths : CheckHealth(path)

SpecRace == InitRace /\ [][NextRace]_vars

\* a secret without its secret token
Tokenless(x) == [Name |-> x.Name, Type |-> x.Type, accessToken |-> x.Data.accessToken]

\* createCredential of request c run alone on st, the secrets (without
\* their secret tokens, which are random) and the statuses answered so far
createAlone(st, c, credReq) ==
    LET refused == \/ ValidateCredentialRequest(credReq) # ErrNone
                   \/ \E x \in st.secrets : x.Name = credReq.Name
    IN [secrets |-> IF refused THEN st.secrets
                    ELSE st.secrets \cup
                           {[Name |-> credReq.Name, Type |-> SecretTypeOpaque,
                             accessToken |-> Bytes(credReq.AccessToken)]},
        status |-> [st.status EXCEPT ![c] = IF refused THEN 400 ELSE 201]]

\* the requests run one after the other in the given order
RECURSIVE runInOrder(_, _)
runInOrder(order, st) ==
    IF order = <<>> THEN st
    ELSE runInOrder(Tail(order), createAlone(st, Head(order), conc[Head(order)].req))

\* the orders of the requests
Orders ==
    { o \in [1..NCred -> Creds] : \A a, b \in 1..NCred : a # b => o[a] # o[b] }

-----------------------------------------------------------------------------
(* Responses: RespondError and WriteResponseLocation of package util *)

\* a header value is its media type followed by its parameters
TextPlain == <<"text/plain">>

\* bodies: plain messages, the empty message, and one that starts as HTML
MsgStatus == <<"300 Status">>
MsgParse == <<"Error parsing request body: ", "EOF">>
MsgHTML == <<"<html>", "502 Bad Gateway", "</html>">>
Messages == {MsgStatus, MsgParse, MsgHTML, <<>>}

\* http.DetectContentType on the first bytes of a body
DetectContentType(data) ==
    IF HasPrefix(data, <<"<html>">>)
    THEN <<"text/html", "; charset=utf-8">>
    ELSE <<"text/plain", "; charset=utf-8">>

\* ResponseWriter.WriteHeader: the first call fixes the status code and
\* the headers that are sent; a later call does nothing
WriteHeader(w, statusCode) ==
    IF w.wroteHeader THEN w
    ELSE [w EXCEPT !.wroteHeader = TRUE, !.code = statusCode, !.snap = w.header]

\* ResponseWriter.Header().Add(key, value): the map of the handler, which
\* is no longer sent once WriteHeader was called
HeaderAdd(w, key, value) == [w EXCEPT !.header[key] = Append(@, value)]

\* ResponseWriter.Write: writes the header with 200 if none was written,
\* then the body. The first Write sets a Content-Type found by sniffing
\* when the headers that are sent have none: the server does it for a
\* body that is not empty, httptest's recorder only when this Write is what
\* writes the header
Write(w, data) ==
    LET h == WriteHeader(w, 200)
        sniffs == /\ ~w.wrote
                  /\ h.snap.ContentType = <<>>
                  /\ IF w.kind = "server" THEN data # <<>> ELSE ~w.wroteHeader
    IN [h EXCEPT !.body = @ \o data, !.wrote = TRUE,
                 !.snap.ContentType =
                     IF sniffs THEN <<DetectContentType(data)>> ELSE @]

\* RespondError(response, err, statusCode), err.Error() being msg
RespondError(response, msg, statusCode) ==
    Write(HeaderAdd(WriteHeader(response, statusCode), "ContentType", TextPlain), msg)

\* WriteResponseLocation(request, response, identifier)
WriteResponseLocation(request, response, identifier) ==
    IF request.method # "POST" THEN response
    ELSE WriteHeader(HeaderAdd(response, "ContentLocation",
                               request.path \o <<Slash>> \o identifier),
                     201)

\* calls: RespondError with each message and a status code of the tests or
\* of the handlers; WriteResponseLocation for a POST and for a GET
Calls ==
    { [NoCall EXCEPT !.fn = "RespondError", !.msg = m, !.statusCode = c] :
        m \in Messages, c \in {300, 301, 302, 400, 404, 500} }
    \cup
    { [NoCall EXCEPT !.fn = "WriteResponseLocation", !.method = m, !.path = q,
                     !.identifier = i] :
        m \in {"POST", "GET"}, q \in {CredentialsPath, <<Slash, "webhooks">>},
        i \in {CredName, NameA} }

InitResp ==
    /\ InitReq
    /\ IdleFn
    /\ IdleChk
    /\ IdleCred
    /\ IdleRace
    /\ call \in Calls
    /\ rw \in {NewWriter("server"), NewWriter("recorder")}
    /\ IdleHub
    /\ IdleTask

\* a handler calls RespondError and returns
RespondErrorCall ==
    /\ call.fn = "RespondError" /\ ~call.returned
    /\ rw' = RespondError(rw, call.msg, call.statusCode)
    /\ call' = [call EXCEPT !.returned = TRUE]
    /\ UNCHANGED <<webVars, fnVars, chkVars, credVars, raceVars, hubVars, taskVars>>

\* a handler calls WriteResponseLocation and returns
WriteResponseLocationCall ==
    /\ call.fn = "WriteResponseLocation" /\ ~call.returned
    /\ rw' = WriteResponseLocation(call, rw, call.identifier)
    /\ call' = [call EXCEPT !.returned = TRUE]
    /\ UNCHANGED <<webVars, fnVars, chkVars, credVars, raceVars, hubVars, taskVars>>

NextResp == RespondErrorCall \/ WriteResponseLocationCall

SpecResp == InitResp /\ [][NextResp]_vars

-----------------------------------------------------------------------------
(* Subscriptions at the Git provider: doGitHubHubbubRequest *)

ModeSubscribe == "subscribe"
ModeUnsubscribe == "unsubscribe"

StatusNoContent == 204

EventIssues == <<"issues">>

\* what client.PostForm returns and whether the hub took the request: 204,
\* a refusal, a transport error before the request arrived, and a
\* transport error on the way back
Accepted == [err |-> FALSE, status |-> StatusNoContent, applied |-> TRUE]
Refused == [err |-> FALSE, status |-> 422, applied |-> FALSE]
Unsent == [err |-> TRUE, status |-> 0, applied |-> FALSE]
Unanswered == [err |-> TRUE, status |-> 0, applied |-> TRUE]
HubAnswers == {Accepted, Refused, Unsent, Unanswered}

\* hub.topic: fmt.Sprintf("%s/events/%s", repoURL.String(), event)
hubTopic(repoURL, event) == repoURL \o <<Slash, "events", Slash>> \o event

\* the topics of the hub after a request it took
hubApply(tps, hubMode, topic) ==
    IF hubMode = ModeSubscribe THEN tps \cup {topic} ELSE tps \ {topic}

\* the loop of doGitHubHubbubRequest that goes on after a failed request
RECURSIVE hubLoopNoStop(_, _, _, _, _)
hubLoopNoStop(hubMode, repoURL, events, answers, st) ==
    IF events = <<>> THEN st
    ELSE LET a == Head(answers)
             topic == hubTopic(repoURL, Head(events))
         IN hubLoopNoStop(hubMode, repoURL, Tail(events), Tail(answers),
                [err |-> st.err \/ a.err \/ a.status # StatusNoContent,
                 sent |-> Append(st.sent, topic),
                 topics |-> IF a.applied THEN hubApply(st.topics, hubMode, topic)
                            ELSE st.topics])

doGitHubHubbubRequestNoStop(hubMode, repoURL, events, answers, tps) ==
    hubLoopNoStop(hubMode, repoURL, events, answers,
                  [err |-> FALSE, sent |-> <<>>, topics |-> tps])

\* the loop of doGitHubHubbubRequest over the events left: st holds the
\* requests sent and the topics of the hub; answers are what the requests
\* will meet
RECURSIVE hubLoop(_, _, _, _, _)
hubLoop(hubMode, repoURL, events, answers, st) ==
    IF events = <<>> THEN st
    ELSE LET a == Head(answers)
             topic == hubTopic(repoURL, Head(events))
             st2 == [err |-> a.err \/ a.status # StatusNoContent,
                     sent |-> Append(st.sent, topic),
                     topics |-> IF a.applied THEN hubApply(st.topics, hubMode, topic)
                                ELSE st.topics]
         IN IF st2.err THEN st2
            ELSE hubLoop(hubMode, repoURL, Tail(events), Tail(answers), st2)

\* doGitHubHubbubRequest(client, repoURL, hubMode, callback, secret, events):
\* err (not nil or nil), the requests sent, the topics of the hub after it
doGitHubHubbubRequest(hubMode, repoURL, events, answers, tps) ==
    hubLoop(hubMode, repoURL, events, answers,
            [err |-> FALSE, sent |-> <<>>, topics |-> tps])

\* event lists: none, one, two in both orders, three
EventLists ==
    { <<>>, <<EventPush>>, <<EventPush, EventPullRequest>>,
      <<EventPullRequest, EventPush>>, <<EventPush, EventPullRequest, EventIssues>> }

\* the topics of all events
AllTopics == { hubTopic(URL1, e) : e \in {EventPush, EventPullRequest, EventIssues} }

HubRequests ==
    UNION { [mode : {ModeSubscribe, ModeUnsubscribe}, events : {evs},
             answers : [1..Len(evs) -> HubAnswers], before : {{}, AllTopics}] :
            evs \in EventLists }

InitHub ==
    /\ InitReq
    /\ IdleFn
    /\ IdleChk
    /\ IdleCred
    /\ IdleRace
    /\ IdleResp
    /\ hubReq \in HubRequests
    /\ hubRes = NoHubRes
    /\ topics = hubReq.before
    /\ IdleTask

\* DoGitHubWebhookRequest runs doGitHubHubbubRequest on the drawn arguments
DoGitHubWebhookRequest ==
    /\ ~hubRes.returned
    /\ LET st == doGitHubHubbubRequest(hubReq.mode, URL1, hubReq.events,
                                       hubReq.answers, topics)
       IN /\ hubRes' = [returned |-> TRUE, err |-> st.err, sent |-> st.sent]
          /\ topics' = st.topics
    /\ UNCHANGED <<hubReq, webVars, fnVars, chkVars, credVars, raceVars, respVars,
                   taskVars>>

NextHub == DoGitHubWebhookRequest

SpecHub == InitHub /\ [][NextHub]_vars

-----------------------------------------------------------------------------
(* The wait for a task run: checkTaskRunSucceeds *)

\* the loop runs while retries is below this value
MaxRetries == 120

\* a task run as the checks see it: the status of its Succeeded condition
\* and whether its spec asks for cancellation
TaskRuns == [cond : {"Unknown", "True", "False"}, cancelled : BOOLEAN]

IsDone(tr) == tr.cond # "Unknown"

IsSuccessful(tr) == tr.cond = "True"

IsCancelled(tr) == tr.cancelled

\* what checkTaskRunSucceeds returns
Return(ok, err) == [chk EXCEPT !.pc = "returned", !.ok = ok, !.err = err]

\* checkTaskRunSucceeds is called on a task run in any state
InitTask ==
    /\ InitReq
    /\ IdleFn
    /\ IdleChk
    /\ IdleCred
    /\ IdleRace
    /\ IdleResp
    /\ IdleHub
    /\ taskRun \in TaskRuns
    /\ chk = NoCheck

\* retries := 1
checkTaskRunSucceedsBegin ==
    /\ chk.pc = "idle"
    /\ chk' = [chk EXCEPT !.pc = "loop", !.retries = 1]
    /\ UNCHANGED <<taskRun, webVars, fnVars, chkVars, credVars, raceVars, respVars,
                   hubVars>>

\* one pass of the loop that does not count its passes
checkTaskRunSucceedsPollNoCount ==
    /\ chk.pc = "loop"
    /\ IF chk.retries < MaxRetries
       THEN \E getFails \in BOOLEAN :
              LET polled == [chk EXCEPT !.polls = chk.polls + 1]
                  seen == [polled EXCEPT !.seen = taskRun]
              IN chk' =
                   IF getFails THEN [polled EXCEPT !.pc = "returned", !.err = "get"]
                   ELSE IF IsDone(taskRun)
                   THEN IF IsSuccessful(taskRun)
                        THEN [seen EXCEPT !.pc = "returned", !.ok = TRUE, !.err = "nil"]
                        ELSE IF IsCancelled(taskRun)
                        THEN [seen EXCEPT !.pc = "returned", !.err = "cancelled"]
                        ELSE [seen EXCEPT !.pc = "returned", !.err = "failed"]
                   ELSE seen
       ELSE chk' = Return(FALSE, "notReporting")
    /\ UNCHANGED <<taskRun, webVars, fnVars, chkVars, credVars, raceVars, respVars,
                   hubVars>>

\* one pass of the loop: the test retries < 120, the Get of the task run,
\* the checks on it, and the sleep of one second before the next pass; or,
\* when the test fails, the return after the loop
checkTaskRunSucceedsPoll ==
    /\ chk.pc = "loop"
    /\ IF chk.retries < MaxRetries
       THEN \E getFails \in BOOLEAN :
              LET polled == [chk EXCEPT !.polls = chk.polls + 1]
                  seen == [polled EXCEPT !.seen = taskRun]
              IN chk' =
                   IF getFails THEN [polled EXCEPT !.pc = "returned", !.err = "get"]
                   ELSE IF IsDone(taskRun)
                   THEN IF IsSuccessful(taskRun)
                        THEN [seen EXCEPT !.pc = "returned", !.ok = TRUE, !.err = "nil"]
                        ELSE IF IsCancelled(taskRun)
                        THEN [seen EXCEPT !.pc = "returned", !.err = "cancelled"]
                        ELSE [seen EXCEPT !.pc = "returned", !.err = "failed"]
                   ELSE [seen EXCEPT !.retries = chk.retries + 1]
       ELSE chk' = Return(FALSE, "notReporting")
    /\ UNCHANGED <<taskRun, webVars, fnVars, chkVars, credVars, raceVars, respVars,
                   hubVars>>

\* the task run finishes while checkTaskRunSucceeds waits for it
TaskRunFinishes ==
    /\ chk.pc # "returned"
    /\ ~IsDone(taskRun)
    /\ \E c \in {"True", "False"} : taskRun' = [taskRun EXCEPT !.cond = c]
    /\ UNCHANGED <<chk, webVars, fnVars, chkVars, credVars, raceVars, respVars, hubVars>>

\* somebody asks for the cancellation of the task run
TaskRunCancel ==
    /\ chk.pc # "returned"
    /\ ~IsCancelled(taskRun)
    /\ taskRun' = [taskRun EXCEPT !.cancelled = TRUE]
    /\ UNCHANGED <<chk, webVars, fnVars, chkVars, credVars, raceVars, respVars, hubVars>>

NextTask ==
    \/ checkTaskRunSucceedsBegin
    \/ checkTaskRunSucceedsPoll
    \/ TaskRunFinishes
    \/ TaskRunCancel

\* the Get returns and the sleep ends: the goroutine makes its next pass
SpecTask == InitTask /\ [][NextTask]_vars /\ WF_vars(checkTaskRunSucceedsPoll)

-----------------------------------------------------------------------------
(* Properties *)

\* positions of a handler that holds the lock: from acquiring it to returning
InHandler == {"locked", "getEL", "subscribe", "write", "poll", "repoll", "network",
              "unsubscribe", "remove", "done"}

\* positions between reading the EventListener and writing it back
InReadModifyWrite == {"subscribe", "write", "poll", "repoll", "network",
                      "unsubscribe", "remove"}

HasTriggersOf(triggers, w) ==
    \A k \in 1..Len(webhookTriggers(w)) :
        \E i \in 1..Len(triggers) : triggers[i] = webhookTriggers(w)[k]

HeaderValues(t) == [i \in 1..Len(t.Header) |-> t.Header[i].Value]

\* C4: the triggers built by updateEventListener for the webhooks added so
\* far are, in order, three per webhook W (push, pull request, monitor), each
\* named W.Name, a hyphen and a postfix, referring to the bindings and the
\* template of W's pipeline, with the trigger name, W's URL, the event and
\* W's secret name as headers.
C4_ThreeNamedTriggers ==
    /\ Len(elE) = 3 * Len(hooks)
    /\ \A i \in 1..Len(hooks) : \A k \in 1..3 :
        LET w == hooks[i]
            t == elE[3 * (i - 1) + k]
        IN /\ HasPrefix(t.Name, w.Name \o <<Hyphen>>)
           /\ Len(t.Name) > Len(w.Name) + 1
           /\ HasPrefix(t.Binding, w.Pipeline \o <<Hyphen>>)
           /\ t.Template = Join(w.Pipeline, Template)
           /\ HeaderValues(t) =
                 << t.Name, w.GitRepositoryURL,
                    IF k = 1 THEN EventPush ELSE EventPullRequest,
                    w.AccessTokenRef >>

\* C5: the webhooks read back from the triggers built by addWebhookTriggers
\* are the webhooks added, in order, with all seven fields equal.
C5_RoundTrip == getWebhooksFromEventListener(elA) = hooks

\* a name that is not empty, has at most 57 characters and no hyphen
ValidName(n) ==
    Len(n) > 0 /\ Len(n) <= MaxNameLen /\ \A i \in 1..Len(n) : n[i] # "-"

\* the webhook name a trigger name carries before the postfix of its action
NamesOfTrigger(t) ==
    { SubSeq(t.Name, 1, Len(t.Name) - Len(p) - 1) :
        p \in { q \in {pushTriggerBindingPostfix, pullTriggerBindingPostfix,
                       monitorTaskName} :
                /\ Len(t.Name) >= Len(q) + 1
                /\ SubSeq(t.Name, Len(t.Name) - Len(q), Len(t.Name)) = <<Hyphen>> \o q } }

DeletedHooks == SelectSeq(last.hooks, LAMBDA w : w.Name = last.name)

\* the triggers of the EventListener, none when it does not exist
ClusterTriggers == IF elExists THEN elTriggers ELSE <<>>

Polling(r) == pc[r] \in {"poll", "repoll"}

RolledBack == last.op \in {"rollback", "rollbackFailed"}

Separators == {Slash, SchemeSep, ".git"}

\* a URL of the form http(s)://<labels>.com/<org>/<repo>, an optional .git
\* suffix aside: scheme http or https, a host of at least one label
\* followed by .com, and a path of two non-empty segments, no trailing slash
WellFormedGitURL(rawurl) ==
    LET t == TrimSuffix(rawurl, GitSuffix)
        k == Len(t)
    IN /\ k >= 8
       /\ t[1] \in {"http", "https"} /\ t[2] = SchemeSep
       /\ \A i \in 3..(k - 5) : t[i] \notin Separators
       /\ t[k - 4] = ".com"
       /\ t[k - 3] = Slash /\ t[k - 2] \notin Separators
       /\ t[k - 1] = Slash /\ t[k] \notin Separators

\* C14: the checks of CreateWebhook answer 400 exactly for the requests
\* that are unreadable, have an empty field, have a Git repository URL that
\* is not well formed, or name a pipeline whose trigger template, push
\* binding or pull-request binding does not exist; every other request
\* passes them.
C14_RejectsExactlyInvalid ==
    cstatus # -1 =>
        (cstatus = 400 <=>
            ~(/\ creq.readable
              /\ checkWebhook(creq.webhook) = ErrNone
              /\ WellFormedGitURL(creq.webhook.GitRepositoryURL)
              /\ pipelineResourcesExist(creq.webhook.Pipeline)))

\* C15: sanitizeGitURL returns no error exactly for the well-formed URLs.
C15_AcceptsExactlyWellFormed ==
    uerr # "unset" =>
        (uerr = ErrNone <=> WellFormedGitURL(creq.webhook.GitRepositoryURL))

\* the characters of letterBytes
Alphabet == Range(letterBytes)

C17_CreateCredentialRefuses ==
    (/\ cresp.op = "create"
     /\ \/ cresp.name = <<>>
        \/ cresp.token = <<>>
        \/ SecretsNamed(cresp.before, cresp.name) # {}) =>
        /\ cresp.status = 400
        /\ secrets = cresp.before
        /\ SecretsNamed(secrets, cresp.name) = SecretsNamed(cresp.before, cresp.name)

\* a request for the name of an existing secret was refused
C17_Witness ==
    /\ cresp.op = "create" /\ cresp.status = 400
    /\ cresp.name # <<>> /\ cresp.token # <<>> /\ cresp.readable
    /\ SecretsNamed(secrets, cresp.name) # {}

EntriesFor(body, name) == Cardinality({ i \in 1..Len(body) : body[i].Name = name })

RegisteredOn(name, repo) ==
    \E i \in 1..Len(registered) :
        registered[i].Name = name /\ registered[i].GitRepositoryURL = repo

C21_CredentialRequestsSerializable ==
    (\A c \in Creds : conc[c].pc = "done") =>
        /\ \E o \in Orders :
              LET st == runInOrder(o, [secrets |-> { Tokenless(x) : x \in PreSecrets },
                                       status |-> [c \in Creds |-> 0]])
              IN /\ st.secrets = { Tokenless(x) : x \in secrets }
                 /\ \A c \in Creds : st.status[c] = conc[c].status
        /\ \A x \in secrets \ PreSecrets :
              /\ Len(x.Data.secretToken.val) = TokenLen
              /\ \A k \in 1..TokenLen : x.Data.secretToken.val[k] \in Alphabet
        /\ \A c, d \in Creds : c # d => conc[c].used \cap conc[d].used = {}

\* C22: after RespondError the response sent to the client has the given
\* status code, the error's message as its body, and a Content-Type header
\* whose media type is text/plain.
C22_RespondErrorPlainText ==
    (call.fn = "RespondError" /\ call.returned) =>
        /\ rw.code = call.statusCode
        /\ rw.body = call.msg
        /\ rw.snap.ContentType # <<>>
        /\ \A k \in 1..Len(rw.snap.ContentType) :
               Head(rw.snap.ContentType[k]) = Head(TextPlain)

\* whether request i was answered with 204
Answered204(i) ==
    ~hubReq.answers[i].err /\ hubReq.answers[i].status = StatusNoContent

\* the first request not answered with 204, one past the last when all were
FirstFailure ==
    IF \A i \in 1..Len(hubReq.events) : Answered204(i)
    THEN Len(hubReq.events) + 1
    ELSE CHOOSE i \in 1..Len(hubReq.events) :
            ~Answered204(i) /\ \A j \in 1..(i - 1) : Answered204(j)

\* C24: doGitHubHubbubRequest returns nil exactly when every request was
\* answered with 204; it sends one request per event, in list order, up to
\* and including the first that meets a transport error or another status,
\* and none after it; the requests accepted before that one stay in effect
\* and the topics of the events not sent are as they were.
C24_HubbubStopsAtFirstFailure ==
    hubRes.returned =>
        LET n == Len(hubReq.events)
            m == IF FirstFailure <= n THEN FirstFailure ELSE n
        IN /\ ~hubRes.err <=> \A i \in 1..n : Answered204(i)
           /\ hubRes.sent = [i \in 1..m |-> hubTopic(URL1, hubReq.events[i])]
           /\ \A i \in 1..(FirstFailure - 1) :
                 hubTopic(URL1, hubReq.events[i]) \in topics
                     <=> hubReq.mode = ModeSubscribe
           /\ \A i \in (m + 1)..n :
                 hubTopic(URL1, hubReq.events[i]) \in topics
                     <=> hubTopic(URL1, hubReq.events[i]) \in hubReq.before

\* of three subscribe requests the first was accepted and the second
\* refused: an error is returned, the third was not sent, the first holds
C24_Witness ==
    /\ hubRes.returned /\ hubRes.err
    /\ hubReq.mode = ModeSubscribe /\ hubReq.before = {}
    /\ Len(hubReq.events) = 3 /\ Len(hubRes.sent) = 2
    /\ hubReq.answers[2] = Refused
    /\ topics = {hubTopic(URL1, EventPush)}

\* whether the names of the triggers are pairwise distinct
DistinctNames(triggers) ==
    \A i, j \in 1..Len(triggers) : i # j => triggers[i].Name # triggers[j].Name

\* C25: the triggers updateEventListener has built for the webhooks added
\* so far, webhooks of different names on the same or on different
\* repositories and pipelines, have pairwise distinct names.
C25_DistinctTriggerNames == DistinctNames(elE)

\* request r answers an error to a create in this step
CreateFails(r) ==
    /\ kind[r] = "create"
    /\ pc[r] # "done" /\ pc'[r] = "done"
    /\ resp'[r] # 201

NoneInProgress == \A r \in Reqs : pc[r] \in {"idle", "lock", "locked", "done"}

OnRepo(ws, repo) == SelectSeq(ws, LAMBDA w : w.GitRepositoryURL = repo)

\* the repositories of the registered webhooks
RegisteredRepos == { registered[i].GitRepositoryURL : i \in 1..Len(registered) }

C30_CheckTaskRunTerminates ==
    /\ [](chk.polls <= MaxRetries - 1 /\ chk.retries <= MaxRetries)
    /\ [](chk.pc = "returned" =>
            /\ chk.ok <=> chk.err = "nil"
            /\ chk.err \in {"nil", "get", "cancelled", "failed", "notReporting"}
            /\ chk.polls >= 1
            /\ chk.ok => IsDone(chk.seen) /\ IsSuccessful(chk.seen)
            /\ chk.err = "cancelled" =>
                  IsDone(chk.seen) /\ ~IsSuccessful(chk.seen) /\ IsCancelled(chk.seen)
            /\ chk.err = "failed" =>
                  IsDone(chk.seen) /\ ~IsSuccessful(chk.seen) /\ ~IsCancelled(chk.seen)
            /\ chk.err = "notReporting" =>
                  chk.polls = MaxRetries - 1 /\ ~IsDone(chk.seen))
    /\ (chk.pc = "loop") ~> (chk.pc = "returned")

\* the task run was never seen done and the loop has reached its limit
C30_Witness ==
    /\ chk.pc = "returned" /\ ~chk.ok /\ chk.err = "notReporting"
    /\ chk.polls = MaxRetries - 1
    /\ ~IsDone(chk.seen)

====
